---- MODULE Spec2Model ----
(***************************************************************************)
(* A model of the two compilers of src/src/html-renderer.ts that precede   *)
(* the tree walk: HtmlRenderer.splitBySection (section and page splitting) *)
(* and HtmlRenderer.processStyles (style cascade resolution), and of the    *)
(* numbering phase of HtmlRenderer.render (prodessNumberings and           *)
(* renderNumbering).                                                       *)
(*                                                                         *)
(* JavaScript indices are kept 0-based in the index variables              *)
(* (pBreakIndex, rBreakIndex); a JavaScript a[k] is the TLA+ a[k + 1].     *)
(***************************************************************************)
EXTENDS Integers, Sequences, FiniteSets, TLC

(***************************************************************************)
(* Bounds of the documents that are enumerated.                            *)
(***************************************************************************)
\* elements of the content sequence (document.children)
MaxElems == 2
MaxStyles == 3
\* styles without an id (the document defaults) of a style list
MaxDocDefaults == 1
\* paragraph children (runs and bookmark starts) a document has in total
ChildCounts == 0..3
\* run children (text and breaks) a document has in total
LeafCounts == 0..3
\* children of one run
RunLengths == 0..3
\* sectionProps and pageBreakBefore that are set in a document, in total
FlagCounts == 0..2

VARIABLES
    breakPages,     \* options.breakPages
    cloneOfUndefined, \* what clone(undefined) of ./utils returns
    elements,       \* document.children, the objects splitBySection is given
    original,       \* history: document.children as they were before the call
    result,         \* splitBySection: the local result (list of sections)
    idx,            \* splitBySection: position of the for..of loop (1-based)
    sectProps,      \* splitBySection: the function-scoped variable sectProps
    theme,          \* document.themePart.theme.fontScheme
    styles,         \* document.stylesPart.styles, the objects processStyles is given
    originalStyles, \* history: the styles as they were before the call
    stylesMap,      \* processStyles: the local stylesMap, from id to the style's index
    noStyleBlock,   \* options.noStyleBlock
    numberings,     \* document.numberingPart.domNumberings
    styleMap,       \* this.styleMap, as the numbering phase finds it
    noCssDict,      \* this.noCssDict
    styleContainer, \* the style elements appended to styleContainer
    loads,          \* the promises of loadNumberingImage, in the order of the calls
    pc              \* control state of splitBySection, processStyles and render

splitVars == <<breakPages, elements, original, result, idx, sectProps>>
styleVars == <<theme, styles, originalStyles, stylesMap>>
numVars == <<noStyleBlock, numberings, styleMap, noCssDict, styleContainer, loads>>
vars == <<breakPages, cloneOfUndefined, elements, original, result, idx, sectProps,
          theme, styles, originalStyles, stylesMap,
          noStyleBlock, numberings, styleMap, noCssDict, styleContainer, loads, pc>>

(***************************************************************************)
(* JavaScript values                                                       *)
(***************************************************************************)
\* the value null
Null == -1
\* the value undefined
Undefined == -2
\* document.props, the section properties stored on the body
LastSectionProps == 0
\* the id no section properties have: the initial lastSectionId
NoSectionId == -3
\* sectProps.id: section properties are identified by their number
SectionId(sp) == sp

Truthy(v) == v # Null /\ v # Undefined

\* clone of ./utils: a copy that is equal to its argument; what it makes of
\* undefined is a property of the build (cloneOfUndefined)
Clone(v) == IF v = Undefined THEN cloneOfUndefined ELSE v

Min(a, b) == IF a < b THEN a ELSE b

\* Array.prototype.slice(from, to) with 0 <= from, 0-based and end-exclusive
Slice(s, from, to) ==
    LET hi == Min(to, Len(s))
    IN  IF from >= hi THEN <<>> ELSE [k \in 1..(hi - from) |-> s[from + k]]

\* Array.prototype.findIndex: 0-based index of the first match, -1 if none
FindIndex(s, P(_)) ==
    IF \E k \in 1..Len(s) : P(s[k])
    THEN (CHOOSE k \in 1..Len(s) : P(s[k]) /\ \A j \in 1..(k - 1) : ~P(s[j])) - 1
    ELSE -1

(***************************************************************************)
(* Styles (IDomStyle) and the theme                                        *)
(***************************************************************************)
\* an id or a class name is a sequence of characters
NullId == <<"null">>                \* the id null: no sequence of characters
\* the stylesMap of line 173
EmptyMap == [k \in {} |-> 0]
NoBasedOn == <<>>                   \* no basedOn: a falsy value
RootClassName == <<"d", "o", "c", "x">>   \* options.className

\* a document without numbering part: the numbering phase has nothing to do
NoNumberingPart ==
    /\ noStyleBlock = FALSE
    /\ numberings = <<>>
    /\ styleMap = [isNull |-> TRUE, styles |-> EmptyMap]
    /\ noCssDict = EmptyMap
    /\ styleContainer = <<>>
    /\ loads = <<>>

\* a font scheme: the Latin typefaces of the minor and of the major font; ""
\* stands for a typeface that is empty or absent
Theme(minor, major) == [minorLatin |-> minor, majorLatin |-> major]
NoTheme == Theme("", "")

\* a block of a style: { target, values }, values a map from property to value
Block(target, values) == [target |-> target, values |-> values]

\* basedOnResolved is "undefined" until the first loop of processStyles sets it
Style(id, basedOn, isDefault, blocks) ==
    [id |-> id, basedOn |-> basedOn, isDefault |-> isDefault, styles |-> blocks,
     basedOnResolved |-> "undefined", cssName |-> NullId]

(***************************************************************************)
(* The document tree (OpenXmlElement)                                      *)
(***************************************************************************)
TextLeaf == [type |-> "Text", break |-> "none"]
PageBreakLeaf == [type |-> "Break", break |-> "page"]
Leaves == {TextLeaf, PageBreakLeaf}

Run(c) == [type |-> "Run", hasChildren |-> TRUE, children |-> c]
\* a bookmark start between the runs of a paragraph: children is optional,
\* the element comes without it
BookmarkStart == [type |-> "BookmarkStart", hasChildren |-> FALSE, children |-> <<>>]
TableRow == [type |-> "Row", hasChildren |-> TRUE, children |-> <<>>]

\* pos is no field of the program: it names the object, by its position in
\* document.children, and { ...elem } copies it to the fragment made of elem
Paragraph(pos, c, sp, pbb) ==
    [type |-> "Paragraph", pos |-> pos, hasChildren |-> TRUE, children |-> c,
     sectionProps |-> sp, pageBreakBefore |-> pbb]
Table(pos) ==
    [type |-> "Table", pos |-> pos, hasChildren |-> TRUE, children |-> <<TableRow>>,
     sectionProps |-> Undefined, pageBreakBefore |-> FALSE]

RunsWith(l) == {Run(c) : c \in [1..l -> Leaves]}

\* the child lists with exactly c children that hold exactly l leaves
RECURSIVE ChildSeqs(_, _)
ChildSeqs(c, l) ==
    IF c = 0
    THEN (IF l = 0 THEN {<<>>} ELSE {})
    ELSE {Append(s, BookmarkStart) : s \in ChildSeqs(c - 1, l)}
         \cup UNION {{Append(s, r) : s \in ChildSeqs(c - 1, l - k), r \in RunsWith(k)} :
                        k \in {k \in RunLengths : k <= l}}

\* the elements at position i with exactly c children that hold exactly l
\* leaves, f of sectionProps and pageBreakBefore being set; a paragraph that
\* ends a section has section properties of its own, identified by the
\* position i
ElementsWith(i, c, l, f) ==
    (IF c = 0 /\ l = 0 /\ f = 0 THEN {Table(i)} ELSE {}) \cup
    {Paragraph(i, ch, IF fl[1] THEN i ELSE Undefined, fl[2]) :
        ch \in ChildSeqs(c, l),
        fl \in {fl \in BOOLEAN \X BOOLEAN :
                  (IF fl[1] THEN 1 ELSE 0) + (IF fl[2] THEN 1 ELSE 0) = f}}

Max(S) == CHOOSE m \in S : \A x \in S : x <= m

RECURSIVE SumOf(_, _)
SumOf(s, k) == IF s = <<>> THEN 0 ELSE Head(s)[k] + SumOf(Tail(s), k)

\* how n elements may share the children, the leaves and the flags of a
\* document
Profiles(n) ==
    {p \in [1..n -> ChildCounts \X LeafCounts \X FlagCounts] :
        /\ SumOf(p, 1) <= Max(ChildCounts)
        /\ SumOf(p, 2) <= Max(LeafCounts)
        /\ SumOf(p, 3) <= Max(FlagCounts)}

\* the content sequences whose k-th element has p[k][1] children, p[k][2]
\* leaves and p[k][3] flags, from position i on
RECURSIVE DocsOf(_, _)
DocsOf(p, i) ==
    IF i > Len(p)
    THEN {<<>>}
    ELSE {<<e>> \o d : e \in ElementsWith(i, p[i][1], p[i][2], p[i][3]),
                       d \in DocsOf(p, i + 1)}

\* the content sequence d with an empty list of children in every bookmark
\* start
WithBookmarkChildren(d) ==
    [i \in 1..Len(d) |->
        [d[i] EXCEPT !.children =
            [j \in 1..Len(d[i].children) |->
                IF d[i].children[j].type = "BookmarkStart"
                THEN [d[i].children[j] EXCEPT !.hasChildren = TRUE]
                ELSE d[i].children[j]]]]

(***************************************************************************)
(* splitBySection                                                          *)
(***************************************************************************)
\* options.ignoreLastRenderedPageBreak
ignoreLastRenderedPageBreak == TRUE

isPageBreakElement(elem) ==
    IF elem.type # "Break" THEN FALSE
    ELSE IF elem.break = "lastRenderedPageBreak" THEN ~ignoreLastRenderedPageBreak
    ELSE elem.break = "page"

\* r.children?.findIndex(isPageBreakElement) ?? -1
RunBreakIndex(r) ==
    IF r.hasChildren THEN FindIndex(r.children, isPageBreakElement) ELSE -1

HasPageBreak(r) == RunBreakIndex(r) # -1

\* TRUE when no element before the last one renders anything: an element
\* renders when one of its runs has a child that is no bookmark and no break
isFirstRenderElement(elems) ==
    IF Len(elems) = 1 THEN TRUE
    ELSE ~\E i \in 1..(Len(elems) - 1) :
            /\ elems[i].hasChildren
            /\ \E j \in 1..Len(elems[i].children) :
                  LET run == elems[i].children[j]
                  IN  /\ run.type = "Run"
                      /\ run.hasChildren
                      /\ \E k \in 1..Len(run.children) :
                            run.children[k].type \notin {"BookmarkStart", "BookmarkEnd", "Break"}

\* { sectProps: null, elements: [] }; pageWithinSection is the field that
\* addSectionInnerPageNums adds to the section's properties, 0 while unset
EmptySection == [sectProps |-> Null, elements |-> <<>>, pageWithinSection |-> 0]

\* the section called current: the last one of result
Current(res) == res[Len(res)]

\* current.sectProps = v
SetCurrentProps(res, v) == [res EXCEPT ![Len(res)].sectProps = v]

\* current.elements.push(e)
PushToCurrent(res, e) == [res EXCEPT ![Len(res)].elements = Append(@, e)]

\* current.elements.pop()
PopFromCurrent(res) ==
    [res EXCEPT ![Len(res)].elements = SubSeq(@, 1, Len(@) - 1)]

\* p.children.findIndex(r => ...): the first child that contains a page break
ParagraphBreakIndex(p) == FindIndex(p.children, HasPageBreak)

\* the loop of lines 406-408: step back over bookmark starts
RECURSIVE WidenOverBookmarks(_, _)
WidenOverBookmarks(p, k) ==
    IF k > 0 /\ p.children[k].type = "BookmarkStart"
    THEN WidenOverBookmarks(p, k - 1)
    ELSE k

\* elem.children = c, for the paragraph elem that line 390 pushed to the section
\* that has since been closed (the one before current)
SetElemChildren(res, c) ==
    LET s == Len(res) - 1
    IN  [res EXCEPT ![s].elements[Len(res[s].elements)].children = c]

\* lines 379-388: a paragraph whose style sets pageBreakBefore closes current
PageBreakBefore(res, sp, elem) ==
    IF elem.type = "Paragraph" /\ elem.pageBreakBefore
    THEN Append(SetCurrentProps(res, Clone(sp)), EmptySection)
    ELSE res

\* lines 397-410: pBreakIndex and rBreakIndex of the paragraph p
FoundBreakIndex(p) ==
    IF breakPages /\ p.hasChildren THEN ParagraphBreakIndex(p) ELSE -1

PBreakIndex(p) ==
    LET found == FoundBreakIndex(p)
    IN  IF found > 0 THEN WidenOverBookmarks(p, found) ELSE found

RBreakIndex(p) ==
    LET found == FoundBreakIndex(p)
    IN  IF found > -1 THEN RunBreakIndex(p.children[found + 1]) ELSE -1

\* CloseSection without line 413: the section that a section break closes
\* is not given the properties of the paragraph
CloseSectionWithoutProps(res, sp, p) ==
    LET pBreakIndex == PBreakIndex(p)
    IN  IF \/ Truthy(sp)
           \/ /\ pBreakIndex > -1
              /\ pBreakIndex > (IF isFirstRenderElement(Current(res).elements) THEN 0 ELSE -1)
        THEN IF pBreakIndex = 0
             THEN Append(PopFromCurrent(res), [EmptySection EXCEPT !.elements = <<p>>])
             ELSE Append(res, EmptySection)
        ELSE res

\* lines 411-421: close current after a section break or at a page break
CloseSection(res, sp, p) ==
    LET pBreakIndex == PBreakIndex(p)
    IN  IF \/ Truthy(sp)
           \/ /\ pBreakIndex > -1
              /\ pBreakIndex > (IF isFirstRenderElement(Current(res).elements) THEN 0 ELSE -1)
        THEN LET closed == IF Truthy(sp) THEN SetCurrentProps(res, Clone(sp)) ELSE res
             IN  IF pBreakIndex = 0
                 THEN Append(PopFromCurrent(closed), [EmptySection EXCEPT !.elements = <<p>>])
                 ELSE Append(closed, EmptySection)
        ELSE res

\* SplitsParagraph without lines 431-434: the paragraph is split also when
\* the break is the last child of its last child
SplitsParagraphAtLastChild(p) ==
    LET pBreakIndex == PBreakIndex(p)
    IN  /\ ~(pBreakIndex <= 0 \/ ~p.hasChildren \/ Len(p.children) <= pBreakIndex)
        /\ p.children[pBreakIndex + 1].hasChildren

\* lines 422-434: TRUE when the paragraph is split at pBreakIndex
SplitsParagraph(p) ==
    LET pBreakIndex == PBreakIndex(p)
    IN  /\ ~(pBreakIndex <= 0 \/ ~p.hasChildren \/ Len(p.children) <= pBreakIndex)
        /\ p.children[pBreakIndex + 1].hasChildren
        /\ \/ pBreakIndex < Len(p.children) - 1
           \/ RBreakIndex(p) < Len(p.children[pBreakIndex + 1].children) - 1

\* line 431: splitRun
SplitRun(p) ==
    RBreakIndex(p) < Len(p.children[PBreakIndex(p) + 1].children) - 1

\* TruncatedChildren with slice(0, pBreakIndex + 1) in line 437: the child
\* that holds the break stays behind as well
TruncatedChildrenWithBreakRun(p) ==
    LET pBreakIndex == PBreakIndex(p)
        breakRun == p.children[pBreakIndex + 1]
        kept == Slice(p.children, 0, pBreakIndex + 1)
        newRun == [breakRun EXCEPT !.children = Slice(breakRun.children, 0, RBreakIndex(p))]
    IN  IF SplitRun(p) THEN Append(kept, newRun) ELSE kept

\* lines 435-445: the children elem is left with
TruncatedChildren(p) ==
    LET pBreakIndex == PBreakIndex(p)
        breakRun == p.children[pBreakIndex + 1]
        kept == Slice(p.children, 0, pBreakIndex)
        newRun == [breakRun EXCEPT !.children = Slice(breakRun.children, 0, RBreakIndex(p))]
    IN  IF SplitRun(p) THEN Append(kept, newRun) ELSE kept

\* NewParagraph without line 445: breakRun keeps the children that newRun
\* was given
NewParagraphWithWholeBreakRun(p) ==
    [p EXCEPT !.children = Slice(p.children, PBreakIndex(p), Len(p.children))]

\* lines 435-445: newParagraph, whose first child is the object breakRun
NewParagraph(p) ==
    LET pBreakIndex == PBreakIndex(p)
        breakRun == p.children[pBreakIndex + 1]
        moved == Slice(p.children, pBreakIndex, Len(p.children))
    IN  [p EXCEPT !.children =
            IF SplitRun(p)
            THEN [moved EXCEPT ![1].children =
                     Slice(breakRun.children, RBreakIndex(p), Len(breakRun.children))]
            ELSE moved]

\* lines 422-445
SplitParagraph(res, p) ==
    IF SplitsParagraph(p)
    THEN PushToCurrent(SetElemChildren(res, TruncatedChildren(p)), NewParagraph(p))
    ELSE res

\* what the call leaves of the object elem
ElemAfter(elem) ==
    IF elem.type = "Paragraph" /\ SplitsParagraph(elem)
    THEN [elem EXCEPT !.children = TruncatedChildren(elem)]
    ELSE elem

\* one iteration of the loop of lines 378-446
LoopBody(res, sp, elem) ==
    LET pushed == PushToCurrent(PageBreakBefore(res, sp, elem), elem)
    IN  IF elem.type # "Paragraph"
        THEN [result |-> pushed, sectProps |-> sp]
        ELSE [result |-> SplitParagraph(CloseSection(pushed, Clone(elem.sectionProps), elem), elem),
              sectProps |-> Clone(elem.sectionProps)]

\* lines 449-452
SetLastProps(res) ==
    IF Len(res) > 0 THEN SetCurrentProps(res, LastSectionProps) ELSE res

\* lines 454-462: the loop from section i down to the first one
RECURSIVE BackwardFill(_, _, _)
BackwardFill(res, i, currentSectProps) ==
    IF i < 1 THEN res
    ELSE IF res[i].sectProps = Null
         THEN BackwardFill([res EXCEPT ![i].sectProps = Clone(currentSectProps)],
                           i - 1, currentSectProps)
         ELSE BackwardFill(res, i - 1, Clone(res[i].sectProps))

\* addSectionInnerPageNums without lines 477-480: the count is never set
\* back to 1
RECURSIVE addSectionInnerPageNumsWithoutReset(_, _, _, _)
addSectionInnerPageNumsWithoutReset(res, j, lastSectionId, sectiontPageCount) ==
    IF j > Len(res) THEN [result |-> res, threw |-> FALSE]
    ELSE IF res[j].sectProps = Null
         THEN addSectionInnerPageNumsWithoutReset(res, j + 1, lastSectionId, sectiontPageCount)
    ELSE IF res[j].sectProps = Undefined
         THEN [result |-> res, threw |-> TRUE]
    ELSE addSectionInnerPageNumsWithoutReset(
             [res EXCEPT ![j].pageWithinSection = sectiontPageCount + 1],
             j + 1, SectionId(res[j].sectProps), sectiontPageCount + 1)

\* lines 468-486, from section j on; threw is TRUE when sectProps.id is read
\* of a section whose sectProps is undefined
RECURSIVE addSectionInnerPageNums(_, _, _, _)
addSectionInnerPageNums(res, j, lastSectionId, sectiontPageCount) ==
    IF j > Len(res) THEN [result |-> res, threw |-> FALSE]
    ELSE IF res[j].sectProps = Null
         THEN addSectionInnerPageNums(res, j + 1, lastSectionId, sectiontPageCount)
    ELSE IF res[j].sectProps = Undefined
         THEN [result |-> res, threw |-> TRUE]
    ELSE LET count == IF SectionId(res[j].sectProps) # lastSectionId
                      THEN 1 ELSE sectiontPageCount + 1
         IN  addSectionInnerPageNums([res EXCEPT ![j].pageWithinSection = count],
                                     j + 1, SectionId(res[j].sectProps), count)

\* lines 449-465
FinishSplit(res) ==
    addSectionInnerPageNums(BackwardFill(SetLastProps(res), Len(res), Null), 1, NoSectionId, 0)

(***************************************************************************)
(* The specification of splitBySection                                     *)
(***************************************************************************)
\* TRUE when some run of the content sequence d holds a page break
HoldsPageBreak(d) ==
    \E i \in 1..Len(d) : \E j \in 1..Len(d[i].children) : HasPageBreak(d[i].children[j])

\* TRUE when the style of some paragraph of d sets pageBreakBefore
HoldsPageBreakBefore(d) == \E i \in 1..Len(d) : d[i].pageBreakBefore

\* TRUE when in some paragraph of d a bookmark start directly precedes a
\* child that holds a page break
BookmarkBeforeBreak(d) ==
    \E i \in 1..Len(d) : \E j \in 2..Len(d[i].children) :
        HasPageBreak(d[i].children[j]) /\ d[i].children[j - 1].type = "BookmarkStart"

\* the bookmark starts of a document come without children or with an empty
\* list of them, which is read only of a bookmark start before a page break;
\* breakPages is read only at a page break, and clone is given undefined only
\* at a pageBreakBefore: where they cannot matter they are not varied
InitSplit ==
    /\ \E n \in 1..MaxElems : \E p \in Profiles(n) : \E d \in DocsOf(p, 1) :
           elements \in IF BookmarkBeforeBreak(d) THEN {d, WithBookmarkChildren(d)} ELSE {d}
    /\ breakPages \in IF HoldsPageBreak(elements) THEN BOOLEAN ELSE {TRUE}
    /\ cloneOfUndefined \in IF HoldsPageBreakBefore(elements) THEN {Undefined, Null}
                                                              ELSE {Undefined}
    /\ original = elements
    /\ result = <<EmptySection>>
    /\ idx = 1
    /\ sectProps = Undefined
    /\ pc = "loop"
    /\ theme = NoTheme
    /\ styles = <<>>
    /\ originalStyles = <<>>
    /\ stylesMap = EmptyMap
    /\ NoNumberingPart

\* one iteration of for (let elem of elements)
SplitStep ==
    /\ pc = "loop"
    /\ idx <= Len(elements)
    /\ \E out \in {LoopBody(result, sectProps, elements[idx])} :
          /\ result' = out.result
          /\ sectProps' = out.sectProps
    /\ elements' = [elements EXCEPT ![idx] = ElemAfter(@)]
    /\ idx' = idx + 1
    /\ UNCHANGED <<breakPages, cloneOfUndefined, original, pc, styleVars, numVars>>

\* the code after the loop: splitBySection returns result or throws
SplitFinish ==
    /\ pc = "loop"
    /\ idx > Len(elements)
    /\ \E out \in {FinishSplit(result)} :
          /\ result' = out.result
          /\ pc' = IF out.threw THEN "TypeError" ELSE "done"
    /\ UNCHANGED <<breakPages, cloneOfUndefined, elements, original, idx, sectProps, styleVars, numVars>>

NextSplit == SplitStep \/ SplitFinish

SpecSplit == InitSplit /\ [][NextSplit]_vars

(***************************************************************************)
(* processStyles                                                           *)
(***************************************************************************)
\* an acyclic basedOn chain nests one frame of resolveBaseStyle per style; a
\* recursion deeper than this follows a cycle, never returns and ends in the
\* RangeError of an exhausted call stack
MaxCallDepth == MaxStyles + 1

\* the key that the object stylesMap files the id under
MapKey(id) == IF id = NullId THEN <<"n", "u", "l", "l">> ELSE id

\* values with the property k set to v, and with the property k deleted
WithProperty(values, k, v) ==
    [x \in DOMAIN values \cup {k} |-> IF x = k THEN v ELSE values[x]]
WithoutProperty(values, k) == [x \in DOMAIN values \ {k} |-> values[x]]

\* copyStyleProperties without the test of output.hasOwnProperty(key): the
\* values of the base replace those of the style
copyStylePropertiesOverriding(input, output, overideExistingEntries) ==
    [k \in DOMAIN output \cup DOMAIN input |->
        IF k \in DOMAIN input THEN input[k] ELSE output[k]]

\* copyStyleProperties(input, output, null, overideExistingEntries)
copyStyleProperties(input, output, overideExistingEntries) ==
    [k \in DOMAIN output \cup DOMAIN input |->
        IF k \in DOMAIN input /\ (overideExistingEntries \/ k \notin DOMAIN output)
        THEN input[k]
        ELSE output[k]]

\* the loop of copyStyle with a body that pushes a copy of every block of
\* base, also where target has a block of the same target
RECURSIVE copyBlocksAlwaysPushing(_, _, _)
copyBlocksAlwaysPushing(baseBlocks, targetBlocks, overideExistingEntries) ==
    IF baseBlocks = <<>> THEN targetBlocks
    ELSE copyBlocksAlwaysPushing(Tail(baseBlocks), Append(targetBlocks, Head(baseBlocks)),
                                 overideExistingEntries)

\* the loop of copyStyle over the blocks of base, from the first of baseBlocks
RECURSIVE copyBlocks(_, _, _)
copyBlocks(baseBlocks, targetBlocks, overideExistingEntries) ==
    IF baseBlocks = <<>> THEN targetBlocks
    ELSE LET baseStyleStyles == Head(baseBlocks)
             first == FindIndex(targetBlocks, LAMBDA x : x.target = baseStyleStyles.target)
         IN  copyBlocks(Tail(baseBlocks),
                        IF first > -1
                        THEN [targetBlocks EXCEPT ![first + 1].values =
                                 copyStyleProperties(baseStyleStyles.values, @,
                                                     overideExistingEntries)]
                        ELSE Append(targetBlocks, baseStyleStyles),
                        overideExistingEntries)

copyStyle(base, target, overideExistingEntries) ==
    [target EXCEPT !.styles = copyBlocks(base.styles, target.styles, overideExistingEntries)]

\* the body of the loop of replaceAsciiTheme for one block
replaceAsciiThemeOfBlock(substyle, addDefault) ==
    LET values == substyle.values
        hasValue == "asciiTheme" \in DOMAIN values /\ values["asciiTheme"] # ""
        hasFontFamily == "font-family" \in DOMAIN values
        hasMinorLatin == theme.minorLatin # ""
    IN  IF ~hasValue
        THEN IF addDefault /\ ~hasFontFamily /\ hasMinorLatin
             THEN [substyle EXCEPT !.values = WithProperty(values, "font-family", theme.minorLatin)]
             ELSE substyle
        ELSE IF hasFontFamily
             THEN [substyle EXCEPT !.values = WithoutProperty(values, "asciiTheme")]
        ELSE IF values["asciiTheme"] = "minorHAnsi" /\ theme.minorLatin # ""
             THEN [substyle EXCEPT !.values =
                      WithProperty(WithoutProperty(values, "asciiTheme"),
                                   "font-family", theme.minorLatin)]
        ELSE IF values["asciiTheme"] = "majorHAnsi" /\ theme.majorLatin # ""
             THEN [substyle EXCEPT !.values =
                      WithProperty(WithoutProperty(values, "asciiTheme"),
                                   "font-family", theme.majorLatin)]
        ELSE [substyle EXCEPT !.values = WithoutProperty(values, "asciiTheme")]

replaceAsciiTheme(style, addDefault) ==
    [style EXCEPT !.styles =
        [j \in 1..Len(style.styles) |-> replaceAsciiThemeOfBlock(style.styles[j], addDefault)]]

\* className?.replace(/[ .]+/g, '-'): every run of blanks and dots becomes one -
RECURSIVE ReplaceBlanksAndDots(_, _)
ReplaceBlanksAndDots(str, inRun) ==
    IF str = <<>> THEN <<>>
    ELSE IF Head(str) \in {" ", "."}
         THEN (IF inRun THEN <<>> ELSE <<"-">>) \o ReplaceBlanksAndDots(Tail(str), TRUE)
         ELSE <<Head(str)>> \o ReplaceBlanksAndDots(Tail(str), FALSE)

\* .replace(/[&]+/g, 'and'): every run of & becomes and
RECURSIVE ReplaceAmpersands(_, _)
ReplaceAmpersands(str, inRun) ==
    IF str = <<>> THEN <<>>
    ELSE IF Head(str) = "&"
         THEN (IF inRun THEN <<>> ELSE <<"a", "n", "d">>) \o ReplaceAmpersands(Tail(str), TRUE)
         ELSE <<Head(str)>> \o ReplaceAmpersands(Tail(str), FALSE)

\* of null it is undefined, which NullId stands for as well
escapeClassName(className) ==
    IF className = NullId THEN NullId
    ELSE ReplaceAmpersands(ReplaceBlanksAndDots(className, FALSE), FALSE)

processClassName(className) ==
    IF className = NullId \/ className = <<>>
    THEN RootClassName
    ELSE RootClassName \o <<"_">> \o className

\* lines 175-179
IndexedStyles(st) ==
    [i \in 1..Len(st) |->
        IF st[i].id # NullId
        THEN [replaceAsciiTheme(st[i], FALSE) EXCEPT
                 !.basedOnResolved = IF st[i].basedOn = NoBasedOn THEN "true" ELSE "false"]
        ELSE st[i]]

\* the stylesMap of lines 175-179: a later style replaces an earlier one
IndexedMap(st) ==
    [k \in {MapKey(st[i].id) : i \in {i \in 1..Len(st) : st[i].id # NullId}} |->
        Max({i \in 1..Len(st) : st[i].id # NullId /\ MapKey(st[i].id) = k})]

\* resolveBaseStyle without lines 1146-1150: the base is merged as it is,
\* resolved or not
resolveBaseStyleWithoutRecursion(s, i, depth) ==
    IF s.styles[i].basedOn \notin DOMAIN s.stylesMap THEN s
    ELSE LET baseStyle == s.styles[s.stylesMap[s.styles[i].basedOn]]
             merged == copyStyle(baseStyle, s.styles[i], FALSE)
         IN  [s EXCEPT
                 !.styles[i] = [merged EXCEPT !.basedOnResolved = "true"],
                 !.stylesMap = [k \in DOMAIN s.stylesMap \cup {MapKey(merged.id)} |->
                                   IF k = MapKey(merged.id) THEN i ELSE s.stylesMap[k]]]

\* resolveBaseStyle(style, stylesMap) for the style at index i, in the frame
\* number depth; s holds the styles, the stylesMap and whether the stack overflowed
RECURSIVE resolveBaseStyle(_, _, _)
resolveBaseStyle(s, i, depth) ==
    IF depth > MaxCallDepth THEN [s EXCEPT !.overflow = TRUE]
    ELSE IF s.styles[i].basedOn \notin DOMAIN s.stylesMap THEN s
    ELSE LET base == s.stylesMap[s.styles[i].basedOn]
             s1 == IF s.styles[base].basedOnResolved # "true"
                   THEN resolveBaseStyle(s, base, depth + 1)
                   ELSE s
         IN  IF s1.overflow THEN s1
             ELSE LET baseStyle == s1.styles[s1.stylesMap[s1.styles[i].basedOn]]
                      merged == copyStyle(baseStyle, s1.styles[i], FALSE)
                  IN  [s1 EXCEPT
                          !.styles[i] = [merged EXCEPT !.basedOnResolved = "true"],
                          !.stylesMap = [k \in DOMAIN s1.stylesMap \cup {MapKey(merged.id)} |->
                                            IF k = MapKey(merged.id) THEN i ELSE s1.stylesMap[k]]]

\* lines 180-185, from the style at index i on
RECURSIVE ResolveFrom(_, _)
ResolveFrom(s, i) ==
    IF s.overflow \/ i > Len(s.styles) THEN s
    ELSE IF s.styles[i].basedOn # NoBasedOn /\ s.styles[i].basedOnResolved # "true"
         THEN ResolveFrom(resolveBaseStyle(s, i, 1), i + 1)
         ELSE ResolveFrom(s, i + 1)

\* lines 187-190
NamedStyles(st) ==
    [i \in 1..Len(st) |->
        [replaceAsciiTheme(st[i], TRUE) EXCEPT
            !.cssName = processClassName(escapeClassName(st[i].id))]]

\* lines 191-196: defaultOverride, built from the styles ds in their order
RECURSIVE DefaultOverride(_, _)
DefaultOverride(override, ds) ==
    IF ds = <<>> THEN override
    ELSE DefaultOverride(copyStyle(Head(ds), override, FALSE), Tail(ds))

\* styles.filter(x => x.isDefault)
RECURSIVE DefaultStyles(_)
DefaultStyles(st) ==
    IF st = <<>> THEN <<>>
    ELSE (IF Head(st).isDefault THEN <<Head(st)>> ELSE <<>>) \o DefaultStyles(Tail(st))

\* lines 191-199, when some style is the default one
DefaultedStyles(st) ==
    LET defaultStyles == DefaultStyles(st)
        defaultOverride == DefaultOverride([defaultStyles[1] EXCEPT !.styles = <<>>],
                                           defaultStyles)
    IN  [i \in 1..Len(st) |->
            IF st[i].id = NullId THEN copyStyle(defaultOverride, st[i], TRUE) ELSE st[i]]

(***************************************************************************)
(* The specification of processStyles                                      *)
(***************************************************************************)
\* the ids of the styles, by their position in the list
StyleIds == <<<<"A">>, <<"B">>, <<"C">>, <<"D">>, <<"E">>>>
\* the id a basedOn names when the style it names is not in the list
MissingId == <<"X">>
\* the values a style gives to its properties name the style
ColorOf == <<"c1", "c2", "c3", "c4", "c5">>
FontOf == <<"f1", "f2", "f3", "f4", "f5">>

\* how many styles of a list declare something
DeclaringCounts == 0..2

Themes == {Theme("Calibri", "Cambria"), Theme("", "")}

\* how many styles of a list are based on another
BasedCounts == 0..3

\* the basedOn of the styles of a list of n styles
BasedOns(n) ==
    {b \in [1..n -> {NoBasedOn, MissingId} \cup {StyleIds[j] : j \in 1..n}] :
        Cardinality({i \in 1..n : b[i] # NoBasedOn}) \in BasedCounts}

\* what each style of a list of n styles declares: 0 for nothing, else the
\* number of a BlockChoice
Declarations(n) ==
    {c \in [1..n -> 0..4] : Cardinality({i \in 1..n : c[i] # 0}) \in DeclaringCounts}

BlockChoice(i, c) ==
    IF c = 0 THEN <<>>
    ELSE IF c = 1 THEN <<Block("p", [k \in {"color"} |-> ColorOf[i]])>>
    ELSE IF c = 2 THEN <<Block("p", [k \in {"font-family"} |-> FontOf[i]])>>
    ELSE IF c = 3 THEN <<Block("p", [k \in {"asciiTheme"} |->
                                        IF i % 2 = 1 THEN "minorHAnsi" ELSE "majorHAnsi"])>>
    ELSE <<Block("span", [k \in {"color"} |-> ColorOf[i]])>>

\* the style lists of n styles: any basedOn, the first style may be the default
StyleLists(n) ==
    {[i \in 1..n |-> Style(StyleIds[i], b[i], d /\ i = 1, BlockChoice(i, c[i]))] :
        b \in BasedOns(n), d \in BOOLEAN, c \in Declarations(n)}

InitStyles ==
    /\ \E n \in 1..MaxStyles : styles \in StyleLists(n)
    /\ originalStyles = styles
    /\ theme \in IF \E i \in 1..Len(styles) : \E j \in 1..Len(styles[i].styles) :
                       "asciiTheme" \in DOMAIN styles[i].styles[j].values
                THEN Themes
                ELSE {Theme("Calibri", "Cambria")}
    /\ stylesMap = EmptyMap
    /\ pc = "styles"
    /\ breakPages = TRUE
    /\ cloneOfUndefined = Undefined
    /\ elements = <<>>
    /\ original = <<>>
    /\ result = <<>>
    /\ idx = 0
    /\ sectProps = Undefined
    /\ NoNumberingPart

\* lines 175-179
ProcessStylesIndex ==
    /\ pc = "styles"
    /\ styles' = IndexedStyles(styles)
    /\ stylesMap' = IndexedMap(styles)
    /\ pc' = "resolve"
    /\ UNCHANGED <<cloneOfUndefined, splitVars, theme, originalStyles, numVars>>

\* lines 180-185: the recursion of resolveBaseStyle may exhaust the stack
ProcessStylesResolve ==
    /\ pc = "resolve"
    /\ \E out \in {ResolveFrom([styles |-> styles, stylesMap |-> stylesMap, overflow |-> FALSE], 1)} :
          /\ styles' = out.styles
          /\ stylesMap' = out.stylesMap
          /\ pc' = IF out.overflow THEN "RangeError" ELSE "names"
    /\ UNCHANGED <<cloneOfUndefined, splitVars, theme, originalStyles, numVars>>

\* lines 187-190
ProcessStylesNames ==
    /\ pc = "names"
    /\ styles' = NamedStyles(styles)
    /\ pc' = "defaults"
    /\ UNCHANGED <<cloneOfUndefined, splitVars, theme, originalStyles, stylesMap, numVars>>

\* lines 191-200: without a default style defaultOverride is no object and
\* the assignment of line 193 throws
ProcessStylesDefaults ==
    /\ pc = "defaults"
    /\ IF \E i \in 1..Len(styles) : styles[i].isDefault
       THEN styles' = DefaultedStyles(styles) /\ pc' = "stylesDone"
       ELSE styles' = styles /\ pc' = "stylesTypeError"
    /\ UNCHANGED <<cloneOfUndefined, splitVars, theme, originalStyles, stylesMap, numVars>>

NextStyles ==
    ProcessStylesIndex \/ ProcessStylesResolve \/ ProcessStylesNames \/ ProcessStylesDefaults

SpecStyles == InitStyles /\ [][NextStyles]_vars

(***************************************************************************)
(* processStyles of a list with styles that have no id                     *)
(***************************************************************************)
\* how many styles with an id such a list has
IdStyleCounts == 1..2

\* the lists of n styles with ids: none is based on another, any of them may
\* be a default style
IdStyleLists(n) ==
    {[i \in 1..n |-> Style(StyleIds[i], NoBasedOn, d[i], BlockChoice(i, c[i]))] :
        d \in [1..n -> BOOLEAN], c \in [1..n -> 0..4]}

\* the lists of m styles without id that follow n styles with ids; such a
\* style may be based on the first style
NullIdStyleLists(n, m) ==
    {[i \in 1..m |-> Style(NullId, b[i], FALSE, BlockChoice(n + i, c[i]))] :
        b \in [1..m -> {NoBasedOn, StyleIds[1]}], c \in [1..m -> 0..4]}

InitDefaults ==
    /\ \E n \in IdStyleCounts : \E m \in 1..MaxDocDefaults :
          \E named \in IdStyleLists(n) : \E unnamed \in NullIdStyleLists(n, m) :
              styles = named \o unnamed
    /\ originalStyles = styles
    /\ theme \in Themes
    /\ stylesMap = EmptyMap
    /\ pc = "styles"
    /\ breakPages = TRUE
    /\ cloneOfUndefined = Undefined
    /\ elements = <<>>
    /\ original = <<>>
    /\ result = <<>>
    /\ idx = 0
    /\ sectProps = Undefined
    /\ NoNumberingPart

SpecDefaults == InitDefaults /\ [][NextStyles]_vars

(***************************************************************************)
(* processStyles of styles whose ids hold blanks, dots and ampersands      *)
(***************************************************************************)
\* characters of a style id
MaxIdLen == 2
IdCharacters == {"a", " ", ".", "-", "&"}
\* the ids of up to n characters, the empty id among them
EscapableIds(n) == UNION {[1..k -> IdCharacters] : k \in 0..n}

\* two styles with different ids and without declarations; the first is the
\* default style
InitNames ==
    /\ \E id1, id2 \in EscapableIds(MaxIdLen) :
          /\ id1 # id2
          /\ styles = <<Style(id1, NoBasedOn, TRUE, <<>>), Style(id2, NoBasedOn, FALSE, <<>>)>>
    /\ originalStyles = styles
    /\ theme = Theme("Calibri", "Cambria")
    /\ stylesMap = EmptyMap
    /\ pc = "styles"
    /\ breakPages = TRUE
    /\ cloneOfUndefined = Undefined
    /\ elements = <<>>
    /\ original = <<>>
    /\ result = <<>>
    /\ idx = 0
    /\ sectProps = Undefined
    /\ NoNumberingPart

SpecNames == InitNames /\ [][NextStyles]_vars

(***************************************************************************)
(* processStyles of the permutations of a style list                       *)
(***************************************************************************)
\* how many styles such a list has
PermutedCounts == 1..3

\* TRUE when no basedOn chain of the list runs into a cycle
RECURSIVE ReachesById(_, _, _, _)
ReachesById(st, from, to, steps) ==
    IF steps = 0 THEN FALSE
    ELSE \E m \in 1..Len(st) :
            /\ st[m].id = st[from].basedOn
            /\ (m = to \/ ReachesById(st, m, to, steps - 1))

AcyclicBasedOn(st) == \A i \in 1..Len(st) : ~ReachesById(st, i, i, Len(st))

\* the permutations of 1..n
OrdersOf(n) == {f \in [1..n -> 1..n] : \A i, j \in 1..n : f[i] = f[j] => i = j}

\* the list st in the order f
Permuted(st, f) == [i \in 1..Len(st) |-> st[f[i]]]

\* lines 175-185 for the list st: the styles after the two loops
ResolvedStyles(st) ==
    ResolveFrom([styles |-> IndexedStyles(st), stylesMap |-> IndexedMap(st),
                 overflow |-> FALSE], 1).styles

\* the lists with unique ids and without a basedOn cycle; a basedOn may name
\* a style before or after the style in the list, or none of the list
InitOrder ==
    /\ \E n \in PermutedCounts :
          styles \in {st \in StyleLists(n) : AcyclicBasedOn(st) /\ st[1].isDefault}
    /\ originalStyles = styles
    /\ theme = Theme("Calibri", "Cambria")
    /\ stylesMap = EmptyMap
    /\ pc = "styles"
    /\ breakPages = TRUE
    /\ cloneOfUndefined = Undefined
    /\ elements = <<>>
    /\ original = <<>>
    /\ result = <<>>
    /\ idx = 0
    /\ sectProps = Undefined
    /\ NoNumberingPart

SpecOrder == InitOrder /\ [][NextStyles]_vars

(***************************************************************************)
(* The numbering phase of render (lines 85-91): prodessNumberings,         *)
(* renderNumbering and the completions of loadNumberingImage               *)
(***************************************************************************)
\* entries of a numbering list
MaxNums == 2
\* the deepest level of a numbering entry
MaxLevel == 1
\* characters of a level text that is enumerated in full
MaxTextLen == 3

\* the number NaN
NaN == -1000

Digits == <<"0", "1", "2", "3", "4", "5", "6", "7", "8", "9">>
IsDigit(c) == \E d \in 1..10 : Digits[d] = c
DigitValue(c) == (CHOOSE d \in 1..10 : Digits[d] = c) - 1

\* a number in a template literal
RECURSIVE NumberToString(_)
NumberToString(n) ==
    IF n = NaN THEN <<"N", "a", "N">>
    ELSE IF n < 0 THEN <<"-">> \o NumberToString(0 - n)
    ELSE IF n < 10 THEN <<Digits[n + 1]>>
    ELSE NumberToString(n \div 10) \o <<Digits[(n % 10) + 1]>>

\* parseInt(str, 10) of a string of decimal digits: NaN of the empty string
RECURSIVE ParseDigits(_, _)
ParseDigits(str, acc) ==
    IF str = <<>> THEN acc
    ELSE ParseDigits(Tail(str), 10 * acc + DigitValue(Head(str)))

parseInt(str) == IF str = <<>> THEN NaN ELSE ParseDigits(str, 0)

\* x - 1 of a number: NaN - 1 is NaN
MinusOne(x) == IF x = NaN THEN NaN ELSE x - 1

UpperCase == <<"A", "B", "C", "D", "E", "F", "G", "H", "I", "J", "K", "L", "M",
               "N", "O", "P", "Q", "R", "S", "T", "U", "V", "W", "X", "Y", "Z">>
LowerCase == <<"a", "b", "c", "d", "e", "f", "g", "h", "i", "j", "k", "l", "m",
               "n", "o", "p", "q", "r", "s", "t", "u", "v", "w", "x", "y", "z">>

\* String.prototype.toLowerCase
toLowerCase(str) ==
    [i \in 1..Len(str) |->
        IF \E k \in 1..26 : UpperCase[k] = str[i]
        THEN LowerCase[CHOOSE k \in 1..26 : UpperCase[k] = str[i]]
        ELSE str[i]]

\* Array.prototype.join(" ")
RECURSIVE JoinWithBlank(_)
JoinWithBlank(strs) ==
    IF strs = <<>> THEN <<>>
    ELSE IF Len(strs) = 1 THEN strs[1]
    ELSE strs[1] \o <<" ">> \o JoinWithBlank(Tail(strs))

\* lines 1038-1040
numberingClass(id, lvl) ==
    RootClassName \o <<"-", "n", "u", "m", "-">> \o id \o <<"-">> \o NumberToString(lvl)

\* lines 1072-1074
numberingCounter(id, lvl) ==
    RootClassName \o <<"-", "n", "u", "m", "-">> \o id \o <<"-">> \o NumberToString(lvl)

\* lines 1090-1102
numFormatToCssValue(format) ==
    CASE format = "none" -> "none"
      [] format = "bullet" -> "disc"
      [] format = "decimal" -> "decimal"
      [] format = "lowerLetter" -> "lower-alpha"
      [] format = "upperLetter" -> "upper-alpha"
      [] format = "lowerRoman" -> "lower-roman"
      [] format = "upperRoman" -> "upper-roman"
      [] OTHER -> format

\* the pieces of a generated content: a character of the level text or of the
\* suffix, or the text "counter(name, format)" between quotes
Literal(c) == [char |-> c, counter |-> <<>>, format |-> ""]
CounterReference(name, numformat) == [char |-> "", counter |-> name, format |-> numformat]

\* the digits a match of /%\d*/ takes after its %
RECURSIVE DigitsPrefix(_)
DigitsPrefix(str) ==
    IF str = <<>> \/ ~IsDigit(Head(str)) THEN <<>>
    ELSE <<Head(str)>> \o DigitsPrefix(Tail(str))

\* line 1083, with the reading of the level a placeholder names without the
\* decrement
PlaceholderLevelWithoutDecrement(digits) == parseInt(digits)

\* line 1083: the level a placeholder names, s.substring(1) being its digits
PlaceholderLevel(digits) == MinusOne(parseInt(digits))

\* lines 1082-1085: text.replace(/%\d*/g, ...)
RECURSIVE ReplacePlaceholders(_, _, _)
ReplacePlaceholders(text, id, numformat) ==
    IF text = <<>> THEN <<>>
    ELSE IF Head(text) = "%"
         THEN LET digits == DigitsPrefix(Tail(text))
              IN  <<CounterReference(numberingCounter(id, PlaceholderLevel(digits)), numformat)>>
                  \o ReplacePlaceholders(SubSeq(text, Len(digits) + 2, Len(text)), id, numformat)
         ELSE <<Literal(Head(text))>> \o ReplacePlaceholders(Tail(text), id, numformat)

\* lines 1077-1080 and suffMap[suff] ?? ""
suffMap(suff) ==
    CASE suff = "tab" -> <<Literal("\\9")>>
      [] suff = "space" -> <<Literal("\\a0")>>
      [] OTHER -> <<>>

\* lines 1076-1088
levelTextToContent(text, suff, id, numformat) ==
    ReplacePlaceholders(text, id, numformat) \o suffMap(suff)

\* the declarations of a rule: the value of a property that is not declared is
\* <<>>; color is what a run style and text-align what a paragraph style of a
\* numbering entry declares
NoValues ==
    [content |-> <<>>, display |-> <<>>, background |-> <<>>,
     counterReset |-> <<>>, counterIncrement |-> <<>>,
     listStylePosition |-> <<>>, listStyleType |-> <<>>,
     color |-> <<>>, textAlign |-> <<>>]

Rule(selector, values, cssText) ==
    [selector |-> selector, values |-> values, cssText |-> cssText]

\* lines 1062-1067: the declared properties of values replace those the
\* dictionary has for the selector
MergedValues(old, values) ==
    [k \in DOMAIN values |-> IF values[k] # <<>> THEN values[k] ELSE old[k]]

\* lines 1042-1070, of a selector without ", ": the rule is added to the text,
\* or with noStyleBlock its declarations to noCssDict (and "" to the text)
styleToString(out, selectors, values, cssText) ==
    IF ~noStyleBlock
    THEN [out EXCEPT !.styleText = Append(@, Rule(selectors, values, cssText))]
    ELSE [out EXCEPT !.noCssDict =
            IF selectors \in DOMAIN @
            THEN [@ EXCEPT ![selectors] = MergedValues(@, values)]
            ELSE @ @@ (selectors :> MergedValues(NoValues, values))]

\* a numbering entry (IDomNumbering); a pStyleName or levelText of <<>> is the
\* empty string or undefined, and bullet is read only with hasBullet
Numbering(id, level, pStyleName, levelText, format, suff, hasBullet, src, color, textAlign) ==
    [id |-> id, level |-> level, pStyleName |-> pStyleName, levelText |-> levelText,
     format |-> format, suff |-> suff, hasBullet |-> hasBullet,
     bullet |-> [src |-> src, style |-> ""],
     rStyle |-> [color |-> color], pStyle |-> [textAlign |-> textAlign]]

\* line 626
Selector(num) == <<"p", ".">> \o numberingClass(num.id, num.level)
BeforeSelector(num) == Selector(num) \o <<":", "b", "e", "f", "o", "r", "e">>
\* lines 639 and 674
WrapperSelector == <<".">> \o RootClassName \o <<"-", "w", "r", "a", "p", "p", "e", "r">>

\* line 630
Valiable(num) == toLowerCase(<<"-", "-">> \o RootClassName \o <<"-">> \o num.bullet.src)

\* lines 629-642
RenderBullet(out, num) ==
    LET styled == styleToString(out, BeforeSelector(num),
                     [NoValues EXCEPT !.content = <<Literal("' '")>>,
                                      !.display = <<"inline-block">>,
                                      !.background = Valiable(num)],
                     num.bullet.style)
    IN  [styled EXCEPT !.loads = Append(@, [valiable |-> Valiable(num),
                                           src |-> num.bullet.src,
                                           completed |-> FALSE])]

\* lines 643-660
RenderLevelText(out, num) ==
    LET counter == numberingCounter(num.id, num.level)
        reset == IF num.level > 0
                 THEN styleToString(out, <<"p", ".">> \o numberingClass(num.id, num.level - 1),
                          [NoValues EXCEPT !.counterReset = counter], "")
                 ELSE [out EXCEPT !.rootCounters = Append(@, counter)]
    IN  styleToString(reset, BeforeSelector(num),
            [NoValues EXCEPT !.content = levelTextToContent(num.levelText, num.suff, num.id,
                                             numFormatToCssValue(num.format)),
                             !.counterIncrement = counter,
                             !.color = num.rStyle.color],
            "")

\* lines 626-670: one iteration of for (var num of numberings)
RenderEntry(out, num) ==
    LET branch == IF num.hasBullet THEN RenderBullet(out, num)
                  ELSE IF num.levelText # <<>> THEN RenderLevelText(out, num)
                  ELSE out
        listStyleType == IF ~num.hasBullet /\ num.levelText = <<>>
                         THEN numFormatToCssValue(num.format)
                         ELSE "none"
    IN  styleToString(branch, Selector(num),
            [NoValues EXCEPT !.display = <<"list-item">>,
                             !.listStylePosition = <<"inside">>,
                             !.listStyleType = <<listStyleType>>,
                             !.textAlign = num.pStyle.textAlign],
            "")

RECURSIVE RenderEntries(_, _)
RenderEntries(out, nums) ==
    IF nums = <<>> THEN out
    ELSE RenderEntries(RenderEntry(out, Head(nums)), Tail(nums))

\* lines 673-677
WithRootCounters(out) ==
    IF Len(out.rootCounters) > 0
    THEN styleToString(out, WrapperSelector,
             [NoValues EXCEPT !.counterReset = JoinWithBlank(out.rootCounters)], "")
    ELSE out

\* lines 621-680: the text of the style element that is returned, noCssDict
\* and the promises of loadNumberingImage after the call
renderNumbering(nums, dict) ==
    WithRootCounters(RenderEntries([styleText |-> <<>>, rootCounters |-> <<>>,
                                    noCssDict |-> dict, loads |-> <<>>], nums))

\* this.styleMap: null without styles part (lines 60 and 78-79), or the styles
\* by id; of a style only paragraphProps?.numbering is read
ParagraphStyle(hasNumbering, level) == [hasNumbering |-> hasNumbering, level |-> level]
NullStyleMap == [isNull |-> TRUE, styles |-> EmptyMap]
StyleMap(st) == [isNull |-> FALSE, styles |-> st]

\* lines 203-211: the loop over the entries with a pStyleName; reading a
\* property of null or of undefined throws a TypeError
RECURSIVE prodessNumberings(_, _)
prodessNumberings(map, nums) ==
    IF nums = <<>> THEN [styleMap |-> map, threw |-> FALSE]
    ELSE LET num == Head(nums) IN
         IF num.pStyleName = <<>> THEN prodessNumberings(map, Tail(nums))
         ELSE IF map.isNull \/ num.pStyleName \notin DOMAIN map.styles
              THEN [styleMap |-> map, threw |-> TRUE]
              ELSE IF map.styles[num.pStyleName].hasNumbering
                   THEN prodessNumberings(
                            [map EXCEPT !.styles[num.pStyleName].level = num.level],
                            Tail(nums))
                   ELSE prodessNumberings(map, Tail(nums))

\* what the promise of loadNumberingImage(src) resolves to: the URI of the
\* image the reference src names
ImageUri(src) == <<"blob:">> \o src

\* a style element: the rules of its text, or the custom property of line 639
StyleElement(styleText) == [styleText |-> styleText, valiable |-> <<>>, url |-> <<>>]
ValiableElement(valiable, data) == [styleText |-> <<>>, valiable |-> valiable, url |-> data]

(***************************************************************************)
(* The numbering lists that are enumerated                                 *)
(***************************************************************************)
NumberingIds == {<<"1">>, <<"3">>}
\* references of bullet images
ImageReferences == <<<<"r", "I", "d", "1">>, <<"R", "I", "D", "1">>, <<"r", "I", "d", "2">>>>
\* names of paragraph styles: S1 and S2 are styles of the document
PresentStyleNames == {<<"S", "1">>, <<"S", "2">>}
AbsentStyleName == <<"S", "9">>

\* what the entries of a list are about: 0 a plain list item, 1 to 4 an
\* entry with a level text, 5 to 7 an entry with a bullet image
NumberingKinds == 0..7
NumberingOfKind(id, level, c) ==
    CASE c = 0 -> Numbering(id, level, <<>>, <<>>, "lowerRoman", "tab", FALSE, <<>>, <<>>, <<>>)
      [] c = 1 -> Numbering(id, level, <<>>, <<"%", "1", ".">>, "decimal", "tab", FALSE, <<>>, <<>>, <<>>)
      [] c = 2 -> Numbering(id, level, <<>>, <<"%", "1", ".", "%", "2">>, "decimal", "space", FALSE, <<>>,
                            <<"red">>, <<>>)
      [] c = 3 -> Numbering(id, level, <<>>, <<"(", "%", "2", ")">>, "lowerLetter", "nothing", FALSE, <<>>,
                            <<>>, <<"center">>)
      [] c = 4 -> Numbering(id, level, <<>>, <<"%", "2", "%", "1">>, "chicago", "tab", FALSE, <<>>, <<>>, <<>>)
      [] c = 5 -> Numbering(id, level, <<>>, <<>>, "bullet", "tab", TRUE, ImageReferences[1], <<>>, <<>>)
      [] c = 6 -> Numbering(id, level, <<>>, <<"%", "1">>, "bullet", "tab", TRUE, ImageReferences[2], <<>>, <<>>)
      [] c = 7 -> Numbering(id, level, <<>>, <<>>, "bullet", "tab", TRUE, ImageReferences[3], <<>>,
                            <<"center">>)

\* the lists of n entries
NumberingLists(n) ==
    {[i \in 1..n |-> NumberingOfKind(id[i], level[i], c[i])] :
        id \in [1..n -> NumberingIds], level \in [1..n -> 0..MaxLevel],
        c \in [1..n -> NumberingKinds]}

\* the entries of a list come numbering by numbering and, within a
\* numbering, level by level: no two are of the same level of the same
\* numbering
IdRank(id) == IF id = <<"1">> THEN 0 ELSE 1
InListOrder(nums) ==
    \A i, j \in 1..Len(nums) :
        i < j => \/ IdRank(nums[i].id) < IdRank(nums[j].id)
                 \/ nums[i].id = nums[j].id /\ nums[i].level < nums[j].level

\* the entries of a list that name a paragraph style: plain entries and
\* entries with a level text of the numbering 1
StyleLinkedLists(n) ==
    {[i \in 1..n |-> [NumberingOfKind(<<"1">>, level[i], c[i]) EXCEPT !.pStyleName = name[i]]] :
        level \in [1..n -> 0..MaxLevel], c \in [1..n -> 0..1],
        name \in [1..n -> PresentStyleNames \cup {AbsentStyleName, <<>>}]}

\* the style maps: S1 is a style with a numbering of level 0, S2 a style
\* that may lack one
StyleMaps ==
    {NullStyleMap} \cup
    {StyleMap([name \in PresentStyleNames |->
                   ParagraphStyle(name = <<"S", "1">> \/ h, 0)]) : h \in BOOLEAN}

\* the level texts over these characters, up to n characters
TextCharacters == {"%", "0", "1", "2", "."}
LevelTexts(n) == UNION {[1..k -> TextCharacters] : k \in 1..n}

\* render has processed the styles, if there are any, and is at line 85
NumberingPhase ==
    /\ noCssDict = EmptyMap
    /\ styleContainer = <<>>
    /\ loads = <<>>
    /\ pc = "numbering"
    /\ breakPages = TRUE
    /\ cloneOfUndefined = Undefined
    /\ elements = <<>>
    /\ original = <<>>
    /\ result = <<>>
    /\ idx = 0
    /\ sectProps = Undefined
    /\ theme = NoTheme
    /\ styles = <<>>
    /\ originalStyles = <<>>
    /\ stylesMap = EmptyMap

\* lists of entries of every kind without style link, lists of entries with
\* style links, and lists of one entry with any level text
InitNumbering ==
    /\ \/ \E n \in 1..MaxNums :
             /\ numberings \in {nums \in NumberingLists(n) : InListOrder(nums)}
             /\ styleMap = NullStyleMap
             /\ noStyleBlock \in BOOLEAN
       \/ \E n \in 1..MaxNums :
             /\ numberings \in {nums \in StyleLinkedLists(n) : InListOrder(nums)}
             /\ styleMap \in StyleMaps
             /\ noStyleBlock = FALSE
       \/ \E id \in NumberingIds : \E level \in 0..MaxLevel : \E text \in LevelTexts(MaxTextLen) :
             /\ numberings = <<Numbering(id, level, <<>>, text, "decimal", "tab", FALSE,
                                         <<>>, <<>>, <<>>)>>
             /\ styleMap = NullStyleMap
             /\ noStyleBlock = FALSE
    /\ NumberingPhase

\* line 86
ProdessNumberings ==
    /\ pc = "numbering"
    /\ \E out \in {prodessNumberings(styleMap, numberings)} :
          /\ styleMap' = out.styleMap
          /\ pc' = IF out.threw THEN "numberingTypeError" ELSE "renderNumbering"
    /\ UNCHANGED <<cloneOfUndefined, splitVars, styleVars, noStyleBlock, numberings,
                   noCssDict, styleContainer, loads>>

\* line 89: the style element renderNumbering returns is appended; the
\* callbacks of the promises run after render has returned
RenderNumbering ==
    /\ pc = "renderNumbering"
    /\ \E out \in {renderNumbering(numberings, noCssDict)} :
          /\ styleContainer' = Append(styleContainer, StyleElement(out.styleText))
          /\ noCssDict' = out.noCssDict
          /\ loads' = out.loads
    /\ pc' = "rendered"
    /\ UNCHANGED <<cloneOfUndefined, splitVars, styleVars, noStyleBlock, numberings, styleMap>>

\* lines 638-641: the promise of a load is fulfilled and its callback runs
LoadNumberingImage ==
    /\ pc = "rendered"
    /\ \E i \in 1..Len(loads) :
          /\ ~loads[i].completed
          /\ loads' = [loads EXCEPT ![i].completed = TRUE]
          /\ styleContainer' = Append(styleContainer,
                                   ValiableElement(loads[i].valiable, ImageUri(loads[i].src)))
    /\ UNCHANGED <<cloneOfUndefined, splitVars, styleVars, noStyleBlock, numberings,
                   styleMap, noCssDict, pc>>

NextNumbering == ProdessNumberings \/ RenderNumbering \/ LoadNumberingImage

SpecNumbering == InitNumbering /\ [][NextNumbering]_vars

(***************************************************************************)
(* Reading a result                                                        *)
(***************************************************************************)
Last(s) == s[Len(s)]

\* the elements of the sections of res, in order
RECURSIVE AllElements(_)
AllElements(res) ==
    IF res = <<>> THEN <<>> ELSE Head(res).elements \o AllElements(Tail(res))

LeafToken(pos, leaf) ==
    [pos |-> pos, kind |-> IF leaf.type = "Break" THEN leaf.break ELSE leaf.type]

\* the leaves below the children c of the element at pos: the children of the
\* runs, and the children that have no children themselves
RECURSIVE LeavesOfChildren(_, _)
LeavesOfChildren(pos, c) ==
    IF c = <<>> THEN <<>>
    ELSE (IF Head(c).type = "Run"
          THEN [k \in 1..Len(Head(c).children) |-> LeafToken(pos, Head(c).children[k])]
          ELSE <<LeafToken(pos, Head(c))>>)
         \o LeavesOfChildren(pos, Tail(c))

\* the leaves of a sequence of elements, in document order
RECURSIVE LeavesOf(_)
LeavesOf(elems) ==
    IF elems = <<>> THEN <<>>
    ELSE LeavesOfChildren(Head(elems).pos, Head(elems).children) \o LeavesOf(Tail(elems))

\* the positions of the paragraphs of d that carry section properties
SectionBreaks(d) ==
    {i \in 1..Len(d) : d[i].type = "Paragraph" /\ Truthy(d[i].sectionProps)}

\* TRUE when no paragraph of d contains a page break or has pageBreakBefore
PlainSections(d) == ~HoldsPageBreak(d) /\ ~HoldsPageBreakBefore(d)

(***************************************************************************)
(* C1: when no paragraph contains a page break and no style sets           *)
(* pageBreakBefore, splitBySection returns k + 1 sections for k paragraphs *)
(* that carry section properties: each of them is the last element of its  *)
(* section, whose properties are that paragraph's; the last section holds  *)
(* the remaining elements and has the properties of the document body.     *)
(***************************************************************************)
C1_SectionPerBreak ==
    (pc # "loop" /\ PlainSections(original)) =>
        /\ pc = "done"
        /\ Len(result) = Cardinality(SectionBreaks(original)) + 1
        /\ AllElements(result) = original
        /\ \A s \in 1..(Len(result) - 1) :
              /\ result[s].elements # <<>>
              /\ Last(result[s].elements).pos \in SectionBreaks(original)
              /\ result[s].sectProps = Last(result[s].elements).sectionProps
              /\ \A k \in 1..(Len(result[s].elements) - 1) :
                    result[s].elements[k].pos \notin SectionBreaks(original)
        /\ Last(result).sectProps = LastSectionProps
        /\ \A k \in 1..Len(Last(result).elements) :
              Last(result).elements[k].pos \notin SectionBreaks(original)

\* a section break in the middle: two sections that both hold elements
C1_Witness ==
    /\ pc = "done"
    /\ PlainSections(original)
    /\ Len(result) = 2
    /\ result[1].elements # <<>>
    /\ result[2].elements # <<>>
    /\ result[1].sectProps = 1

(***************************************************************************)
(* C2: splitBySection never duplicates or drops content: the leaves of the *)
(* returned sections, read in order, are the leaves of the input in the    *)
(* original order, for either value of breakPages.                         *)
(***************************************************************************)
C2_LeavesPreserved ==
    pc = "done" => LeavesOf(AllElements(result)) = LeavesOf(original)

\* a paragraph was split inside a run
C2_Witness ==
    /\ pc = "done"
    /\ breakPages
    /\ \E i \in 1..Len(original) :
          /\ original[i].type = "Paragraph"
          /\ SplitsParagraph(original[i])
          /\ SplitRun(original[i])
          /\ RBreakIndex(original[i]) > 0

(***************************************************************************)
(* C3: splitBySection leaves its input as it was: after the call every     *)
(* paragraph of the content sequence has the children it had before, and   *)
(* every run too.                                                          *)
(***************************************************************************)
C3_InputUnchanged ==
    pc = "done" => elements = original

(***************************************************************************)
(* Reading a style list                                                    *)
(***************************************************************************)
\* the position of the style that the style at position j is based on: 0
\* when it has no basedOn, -1 when no style of the list has that id
BaseOf(st, j) ==
    IF j <= 0 THEN j
    ELSE IF st[j].basedOn = NoBasedOn THEN 0
    ELSE IF \E m \in 1..Len(st) : st[m].id = st[j].basedOn
         THEN CHOOSE m \in 1..Len(st) : st[m].id = st[j].basedOn
         ELSE -1

\* the position reached from j by following basedOn k times
RECURSIVE Ancestor(_, _, _)
Ancestor(st, j, k) == IF k = 0 THEN j ELSE Ancestor(st, BaseOf(st, j), k - 1)

\* the basedOn chain of the style at j runs into a cycle
RunsIntoCycle(st, j) == Ancestor(st, j, Len(st)) > 0

\* the basedOn chain of the style at j has no cycle and every base exists
AcyclicComplete(st, j) == Ancestor(st, j, Len(st)) = 0

\* the number of styles on the chain of the style at j, itself included
Depth(st, j) == Cardinality({k \in 0..(Len(st) - 1) : Ancestor(st, j, k) > 0})

\* the style at position j declares the property k for the target t
Declares(st, j, t, k) ==
    \E b \in 1..Len(st[j].styles) :
        st[j].styles[b].target = t /\ k \in DOMAIN st[j].styles[b].values

DeclaredValue(st, j, t, k) ==
    LET b == CHOOSE b \in 1..Len(st[j].styles) :
                 st[j].styles[b].target = t /\ k \in DOMAIN st[j].styles[b].values
    IN  st[j].styles[b].values[k]

Targets == {"p", "span"}
Properties == {"color", "font-family", "asciiTheme"}

\* the resolve loop of processStyles is over
Resolved == pc \in {"names", "defaults", "stylesDone", "stylesTypeError"}

(***************************************************************************)
(* C4: when the basedOn references of the style list form a cycle,         *)
(* processStyles detects it and terminates: the resolution of a list with  *)
(* a cycle never recurses until the call stack is exhausted.               *)
(***************************************************************************)
C4_CycleTerminates ==
    (\E j \in 1..Len(originalStyles) : RunsIntoCycle(originalStyles, j))
        => pc # "RangeError"

(***************************************************************************)
(* C5: for every acyclic basedOn chain in which every base exists          *)
(* processStyles terminates and the resolved leaf holds, for each target,  *)
(* every property declared in the chain exactly once, with the value that  *)
(* the style nearest to the leaf declares.                                 *)
(***************************************************************************)
\* the positions of the styles of the chain of the style at j, from j on
Chain(st, j) == [n \in 1..Depth(st, j) |-> Ancestor(st, j, n - 1)]

\* the first style of the chain ch for which D holds
Nearest(ch, D(_)) ==
    ch[CHOOSE n \in 1..Len(ch) : D(ch[n]) /\ \A m \in 1..(n - 1) : ~D(ch[m])]

\* the style at j holds the property k for the target t exactly once
HoldsOnce(st, j, t, k) ==
    Cardinality({b \in 1..Len(st[j].styles) :
        st[j].styles[b].target = t /\ k \in DOMAIN st[j].styles[b].values}) = 1

SetsFont(st, j, t) ==
    \/ Declares(st, j, t, "font-family")
    \/ /\ Declares(st, j, t, "asciiTheme")
       /\ \/ DeclaredValue(st, j, t, "asciiTheme") = "minorHAnsi" /\ theme.minorLatin # ""
          \/ DeclaredValue(st, j, t, "asciiTheme") = "majorHAnsi" /\ theme.majorLatin # ""

FontSet(st, j, t) ==
    IF Declares(st, j, t, "font-family") THEN DeclaredValue(st, j, t, "font-family")
    ELSE IF DeclaredValue(st, j, t, "asciiTheme") = "minorHAnsi" THEN theme.minorLatin
    ELSE theme.majorLatin

JustProcessed(i) == pc = "loop" /\ idx = i + 1

IsParagraph(i) == i \in 1..Len(original) /\ original[i].type = "Paragraph"

\* the section that was closed last: the one before current
Closed(res) == res[Len(res) - 1]

\* 1-based position of the first child of p that holds a page break, 0 if none
FirstBreakChild(p) ==
    IF \E j \in 1..Len(p.children) : HasPageBreak(p.children[j])
    THEN CHOOSE j \in 1..Len(p.children) :
            /\ HasPageBreak(p.children[j])
            /\ \A k \in 1..(j - 1) : ~HasPageBreak(p.children[k])
    ELSE 0

\* 1-based position of the first page break among the children of the run r
FirstBreakLeaf(r) ==
    CHOOSE j \in 1..Len(r.children) :
        /\ isPageBreakElement(r.children[j])
        /\ \A k \in 1..(j - 1) : ~isPageBreakElement(r.children[k])

(***************************************************************************)
(* C6: with breakPages, a paragraph that is not the first element of the   *)
(* content sequence and has its first page break inside its first child is *)
(* moved whole into a new section, of which it is the first element,       *)
(* whatever the earlier elements are.                                      *)
(***************************************************************************)
C6_FirstChildBreakOpensSection ==
    \A i \in 2..Len(original) :
        (/\ JustProcessed(i)
         /\ breakPages
         /\ IsParagraph(i)
         /\ FirstBreakChild(original[i]) = 1)
        => /\ Len(result) >= 2
           /\ Current(result).elements = <<original[i]>>

(***************************************************************************)
(* C7: with breakPages, when the first page break of a paragraph lies in   *)
(* its child at index P > 0 and no bookmark start is directly before that  *)
(* child, the section being closed keeps a paragraph with the original     *)
(* children [0,P) and the next section opens with a fragment that has the  *)
(* original children [P,end).                                              *)
(***************************************************************************)
C7_Precondition(i) ==
    /\ JustProcessed(i)
    /\ breakPages
    /\ IsParagraph(i)
    /\ FirstBreakChild(original[i]) > 1
    /\ original[i].children[FirstBreakChild(original[i]) - 1].type # "BookmarkStart"

C7_SplitAtBreakChild ==
    \A i \in 1..Len(original) :
        C7_Precondition(i) =>
            LET c == original[i].children
                P == FirstBreakChild(original[i]) - 1
            IN  /\ Len(result) >= 2
                /\ Closed(result).elements # <<>>
                /\ Last(Closed(result).elements).pos = i
                /\ Last(Closed(result).elements).children = SubSeq(c, 1, P)
                /\ Len(Current(result).elements) = 1
                /\ Current(result).elements[1].pos = i
                /\ Current(result).elements[1].children = SubSeq(c, P + 1, Len(c))

\* C7 as amended: the paragraph stays whole when the break is the last child
\* of its last child; otherwise it is split at P, and when the break is not
\* the last child of its run that run is split at the break as well
C7_SplitAtBreakChildAmended ==
    \A i \in 1..Len(original) :
        C7_Precondition(i) =>
            LET c == original[i].children
                P == FirstBreakChild(original[i]) - 1
                run == c[P + 1]
                R == FirstBreakLeaf(run) - 1
                breakIsLastOfRun == R = Len(run.children) - 1
                before == [run EXCEPT !.children = SubSeq(run.children, 1, R)]
                after == [run EXCEPT !.children = SubSeq(run.children, R + 1, Len(run.children))]
            IN  /\ Len(result) >= 2
                /\ Closed(result).elements # <<>>
                /\ Last(Closed(result).elements).pos = i
                /\ IF breakIsLastOfRun /\ P + 1 = Len(c)
                   THEN /\ Last(Closed(result).elements) = original[i]
                        /\ Current(result).elements = <<>>
                   ELSE /\ Last(Closed(result).elements) =
                              [original[i] EXCEPT !.children =
                                  IF breakIsLastOfRun THEN SubSeq(c, 1, P)
                                  ELSE Append(SubSeq(c, 1, P), before)]
                        /\ Current(result).elements =
                              <<[original[i] EXCEPT !.children =
                                  IF breakIsLastOfRun THEN SubSeq(c, P + 1, Len(c))
                                  ELSE <<after>> \o SubSeq(c, P + 2, Len(c))]>>

\* a paragraph was split at a child P > 0 and its fragment, the only element
\* of the new section, holds two children or more
C7_Witness ==
    \E i \in 1..Len(original) :
        /\ C7_Precondition(i)
        /\ Len(Current(result).elements) = 1
        /\ Current(result).elements[1].pos = i
        /\ Len(Current(result).elements[1].children) >= 2

(***************************************************************************)
(* C8: with breakPages, the bookmark starts that directly precede the      *)
(* paragraph child holding the page break lie in the section that follows  *)
(* the break, none of them is left behind in the section before it.        *)
(***************************************************************************)
C8_BookmarksFollowBreak ==
    \A i \in 1..Len(original) :
        (/\ JustProcessed(i)
         /\ breakPages
         /\ IsParagraph(i)
         /\ FirstBreakChild(original[i]) > 1
         /\ original[i].children[FirstBreakChild(original[i]) - 1].type = "BookmarkStart")
        => \E k \in 1..Len(Current(result).elements) :
              LET e == Current(result).elements[k]
                  c == original[i].children
                  P == FirstBreakChild(original[i])
              IN  /\ e.pos = i
                  /\ \E j \in 1..Len(e.children) :
                        /\ HasPageBreak(e.children[j])
                        /\ \A b \in 1..(P - 1) :
                              (\A m \in b..(P - 1) : c[m].type = "BookmarkStart")
                              => /\ j - (P - b) >= 1
                                 /\ e.children[j - (P - b)].type = "BookmarkStart"

(***************************************************************************)
(* C9: a paragraph whose style sets pageBreakBefore is the first element   *)
(* of a section opened for it, unless it is the very first element: then   *)
(* no boundary is opened and the result does not begin with an empty       *)
(* section.                                                                *)
(***************************************************************************)
C9_PageBreakBeforeOpensSection ==
    \A i \in 1..Len(original) :
        (JustProcessed(i) /\ IsParagraph(i) /\ original[i].pageBreakBefore)
        => IF i = 1
           THEN result[1].elements # <<>>
           ELSE \E s \in 2..Len(result) :
                   /\ result[s].elements # <<>>
                   /\ result[s].elements[1].pos = i

(***************************************************************************)
(* C10: after splitBySection returns every section has section properties, *)
(* and a section closed by a page break, not by a paragraph that carries   *)
(* section properties, has the properties of the section that follows it.  *)
(***************************************************************************)
\* TRUE when the last element of section s is the paragraph that carries
\* section properties itself, not the fragment split off it
ClosedBySectionBreak(res, s) ==
    /\ res[s].elements # <<>>
    /\ Truthy(Last(res[s].elements).sectionProps)
    /\ \A t \in 1..s : \A k \in 1..Len(res[t].elements) :
          (t < s \/ k < Len(res[s].elements))
          => res[t].elements[k].pos # Last(res[s].elements).pos

C10_PropsOfFollowingSection ==
    pc = "done" =>
        \A s \in 1..Len(result) :
            /\ Truthy(result[s].sectProps)
            /\ (s < Len(result) /\ ~ClosedBySectionBreak(result, s))
               => result[s].sectProps = result[s + 1].sectProps

(***************************************************************************)
(* C11: in the list splitBySection returns pageWithinSection of the first  *)
(* section is 1; of a later section it is that of the section before plus  *)
(* 1 when both have section properties of the same identity, and 1 when    *)
(* the identity differs.                                                   *)
(***************************************************************************)
C11_PageWithinSection ==
    pc = "done" =>
        /\ result[1].pageWithinSection = 1
        /\ \A s \in 2..Len(result) :
              result[s].pageWithinSection =
                  IF SectionId(result[s].sectProps) = SectionId(result[s - 1].sectProps)
                  THEN result[s - 1].pageWithinSection + 1
                  ELSE 1

\* two sections of one identity, numbered 1 and 2, and then one of another
\* identity that is numbered 1 again
C11_Witness ==
    /\ pc = "done"
    /\ \E s \in 2..(Len(result) - 1) :
          /\ result[s - 1].pageWithinSection = 1
          /\ result[s].pageWithinSection = 2
          /\ SectionId(result[s].sectProps) = SectionId(result[s - 1].sectProps)
          /\ SectionId(result[s + 1].sectProps) # SectionId(result[s].sectProps)
          /\ result[s + 1].pageWithinSection = 1

(***************************************************************************)
(* C12: processStyles gives the aggregated default to every style without  *)
(* id without overriding: a property that such a style declares itself    *)
(* for a target keeps the style's own value, only the properties it does   *)
(* not declare come from the aggregated default.                           *)
(***************************************************************************)
C12_DefaultsKeepOwnValues ==
    pc = "stylesDone" =>
        \A j \in 1..Len(originalStyles) : \A t \in Targets :
            \A k \in Properties \ {"asciiTheme"} :
                (originalStyles[j].id = NullId /\ Declares(originalStyles, j, t, k))
                => /\ Declares(styles, j, t, k)
                   /\ DeclaredValue(styles, j, t, k) = DeclaredValue(originalStyles, j, t, k)

(***************************************************************************)
(* Reading the rules of the numbering phase                                *)
(***************************************************************************)
\* the declarations the numbering phase has made for a selector: those of
\* the rules of the style element renderNumbering returned, or with
\* noStyleBlock those of noCssDict
DeclarationsFor(selector) ==
    IF noStyleBlock
    THEN IF selector \in DOMAIN noCssDict THEN {noCssDict[selector]} ELSE {}
    ELSE {styleContainer[1].styleText[r].values :
             r \in {q \in 1..Len(styleContainer[1].styleText) :
                       styleContainer[1].styleText[q].selector = selector}}

\* the numbers N of the placeholders %N of a level text, in their order
RECURSIVE PlaceholderIndices(_)
PlaceholderIndices(text) ==
    IF text = <<>> THEN <<>>
    ELSE IF Head(text) = "%" /\ DigitsPrefix(Tail(text)) # <<>>
         THEN <<ParseDigits(DigitsPrefix(Tail(text)), 0)>>
              \o PlaceholderIndices(SubSeq(text, Len(DigitsPrefix(Tail(text))) + 2, Len(text)))
         ELSE PlaceholderIndices(Tail(text))

\* every % of the level text is followed by a digit
OnlyNumberedPlaceholders(text) ==
    \A k \in 1..Len(text) :
        text[k] = "%" => (k < Len(text) /\ IsDigit(text[k + 1]))

\* the names of the counters a content refers to, in their order
RECURSIVE CountersOf(_)
CountersOf(content) ==
    IF content = <<>> THEN <<>>
    ELSE IF Head(content).counter # <<>>
         THEN <<Head(content).counter>> \o CountersOf(Tail(content))
         ELSE CountersOf(Tail(content))

\* an entry that is rendered from its level text
HasLevelText(num) == ~num.hasBullet /\ num.levelText # <<>>

\* C13: for every entry with a level text at a level L > 0 of a numbering I
\* (no bullet), renderNumbering emits a counter-reset of the counter of (I, L)
\* on the selector of level L - 1 of I, and a before rule on the selector of
\* level L whose counter-increment is the counter of (I, L) and whose content
\* has, for each placeholder %N, a reference to the counter of (I, N - 1);
\* for the level text %1.%2 at level 1 these are exactly the counters of the
\* levels 0 and 1 of I
C13_LevelTextRules ==
    pc = "rendered" =>
        \A i \in 1..Len(numberings) :
            LET num == numberings[i] IN
            (HasLevelText(num) /\ num.level > 0 /\ OnlyNumberedPlaceholders(num.levelText)) =>
                /\ \E v \in DeclarationsFor(<<"p", ".">> \o numberingClass(num.id, num.level - 1)) :
                       v.counterReset = numberingCounter(num.id, num.level)
                /\ \E v \in DeclarationsFor(BeforeSelector(num)) :
                       /\ v.counterIncrement = numberingCounter(num.id, num.level)
                       /\ CountersOf(v.content) =
                              [k \in 1..Len(PlaceholderIndices(num.levelText)) |->
                                  numberingCounter(num.id, PlaceholderIndices(num.levelText)[k] - 1)]
                       /\ (num.levelText = <<"%", "1", ".", "%", "2">> /\ num.level = 1) =>
                              CountersOf(v.content) = <<numberingCounter(num.id, 0),
                                                        numberingCounter(num.id, 1)>>

\* the level text %1.%2 at level 1 has been rendered, after an entry of
\* level 0 of the same numbering
C13_Witness ==
    /\ pc = "rendered"
    /\ Len(numberings) = 2
    /\ numberings[1].id = numberings[2].id
    /\ numberings[1].level = 0
    /\ numberings[2].level = 1
    /\ HasLevelText(numberings[2])
    /\ numberings[2].levelText = <<"%", "1", ".", "%", "2">>

\* the entries of the list that name a paragraph style which has a numbering
LinkedEntries(name) ==
    {i \in 1..Len(numberings) :
        /\ numberings[i].pStyleName = name
        /\ ~styleMap.isNull
        /\ name \in DOMAIN styleMap.styles
        /\ styleMap.styles[name].hasNumbering}

\* C14: the numbering phase never aborts the conversion: prodessNumberings
\* raises no error for any numbering list, also not for an entry whose
\* pStyleName names a style the style map lacks, nor without styles part;
\* such an entry is skipped and the other entries are processed, so that a
\* style with a numbering has the level of the last entry that names it
C14_NumberingNeverAborts ==
    /\ pc # "numberingTypeError"
    /\ pc \in {"renderNumbering", "rendered"} =>
          \A name \in PresentStyleNames :
              LinkedEntries(name) # {} =>
                  styleMap.styles[name].level =
                      numberings[CHOOSE i \in LinkedEntries(name) :
                                     \A j \in LinkedEntries(name) : j <= i].level

\* C15: levelTextToContent raises no error, and a placeholder whose index
\* names a level the numbering does not have (an index beyond its levels, %0
\* or a % without digits) is left as a literal: every counter() reference of
\* a generated content is to the counter of a level of the same numbering,
\* the entry's own level, a level above it or the level of another entry
C15_NoReferenceToMissingLevel ==
    pc = "rendered" =>
        \A i \in 1..Len(numberings) :
            HasLevelText(numberings[i]) =>
                \A v \in DeclarationsFor(BeforeSelector(numberings[i])) :
                    \A k \in 1..Len(CountersOf(v.content)) :
                        \E l \in 0..MaxLevel :
                            /\ \/ l <= numberings[i].level
                               \/ \E j \in 1..Len(numberings) :
                                     numberings[j].id = numberings[i].id /\ numberings[j].level = l
                            /\ CountersOf(v.content)[k] = numberingCounter(numberings[i].id, l)

\* the value the style elements bind to a custom property of the wrapper: the
\* one of the last element that declares it
BoundTo(valiable) ==
    LET declaring == {e \in 1..Len(styleContainer) : styleContainer[e].valiable = valiable}
    IN  IF declaring = {} THEN <<>>
        ELSE styleContainer[CHOOSE e \in declaring : \A f \in declaring : f <= e].url

AllLoadsCompleted == \A i \in 1..Len(loads) : loads[i].completed

\* C16: the bullet image patches are order-independent: once every load has
\* completed, in whatever order, the custom property of each bullet is bound
\* to the URI of the bullet's own image; two entries with different image
\* references never write the same custom property; and the before rule
\* that refers to the property is in the style element renderNumbering
\* returned, before any load completes
C16_BulletPatchesOrderIndependent ==
    pc = "rendered" =>
        /\ \A i \in 1..Len(numberings) :
              numberings[i].hasBullet =>
                  /\ AllLoadsCompleted =>
                        BoundTo(Valiable(numberings[i])) = ImageUri(numberings[i].bullet.src)
                  /\ \E r \in 1..Len(styleContainer[1].styleText) :
                        /\ styleContainer[1].styleText[r].selector = BeforeSelector(numberings[i])
                        /\ styleContainer[1].styleText[r].values.background = Valiable(numberings[i])
        /\ \A i, j \in 1..Len(numberings) :
              (/\ numberings[i].hasBullet
               /\ numberings[j].hasBullet
               /\ numberings[i].bullet.src # numberings[j].bullet.src)
              => Valiable(numberings[i]) # Valiable(numberings[j])

\* C17: processStyles assigns collision-free class names: two styles of the
\* list with different ids (neither null) get different cssName values, and
\* no style with a non-empty id gets the bare root class name
C17_ClassNamesCollisionFree ==
    pc \in {"defaults", "stylesDone", "stylesTypeError"} =>
        /\ \A i, j \in 1..Len(styles) :
              (styles[i].id # NullId /\ styles[j].id # NullId /\ styles[i].id # styles[j].id)
              => styles[i].cssName # styles[j].cssName
        /\ \A i \in 1..Len(styles) :
              (styles[i].id # NullId /\ styles[i].id # <<>>) => styles[i].cssName # RootClassName

\* C18: the default aggregation is idempotent: building the aggregated
\* default from the isDefault styles and copying it onto every style without
\* id once more leaves every style as the first application left it
C18_DefaultsIdempotent ==
    pc = "stylesDone" => DefaultedStyles(styles) = styles

\* the aggregation has acted: a style without id has taken the color of a
\* default style in place of the one it declared
C18_Witness ==
    /\ pc = "stylesDone"
    /\ \E j, d \in 1..Len(styles) : \E t \in Targets :
          /\ originalStyles[j].id = NullId
          /\ styles[d].isDefault
          /\ Declares(originalStyles, j, t, "color")
          /\ Declares(styles, d, t, "color")
          /\ DeclaredValue(styles, j, t, "color") = DeclaredValue(styles, d, t, "color")
          /\ DeclaredValue(styles, j, t, "color") # DeclaredValue(originalStyles, j, t, "color")

\* where the paragraph at position i of the input, or a fragment of it, lies
\* in a list of sections
Occurrences(res, i) ==
    {sk \in {<<s, k>> : s \in 1..Len(res), k \in 1..MaxElems + 1} :
        /\ sk[2] <= Len(res[sk[1]].elements)
        /\ res[sk[1]].elements[sk[2]].pos = i}

\* no paragraph of the sections is without children, unless the input
\* paragraph it comes from is
NoEmptiedParagraph(res) ==
    \A s \in 1..Len(res) : \A k \in 1..Len(res[s].elements) :
        LET e == res[s].elements[k] IN
        (e.type = "Paragraph" /\ e.hasChildren /\ e.children = <<>>)
        => original[e.pos].children = <<>>

\* the first page break of the paragraph at position i is the last child of
\* the paragraph's last child
BreakIsLastOfLast(i) ==
    /\ breakPages
    /\ IsParagraph(i)
    /\ original[i].hasChildren
    /\ FirstBreakChild(original[i]) > 0
    /\ FirstBreakChild(original[i]) = Len(original[i].children)
    /\ FirstBreakLeaf(Last(original[i].children)) = Len(Last(original[i].children).children)

\* C19: splitBySection never produces a paragraph with zero children by
\* splitting, neither as the truncated original nor as the continuation
\* fragment; and a paragraph whose page break is the last child of its last
\* child is not split at all: it stays whole in the section that is closed,
\* it is not an element of the section opened in the step (paragraphs whose
\* style sets pageBreakBefore left aside)
C19_NoEmptyParagraphBySplit ==
    [][(pc = "loop" /\ idx <= Len(elements)) =>
          /\ NoEmptiedParagraph(result')
          /\ (BreakIsLastOfLast(idx) /\ ~original[idx].pageBreakBefore) =>
                /\ \E sk \in Occurrences(result', idx) :
                      /\ Occurrences(result', idx) = {sk}
                      /\ result'[sk[1]].elements[sk[2]] = original[idx]
                      /\ Len(result') > Len(result) => sk[1] < Len(result')
      ]_vars

\* C19 as amended: without a bookmark start directly before the child that
\* holds the break, the paragraph is not split; it is the last element of the
\* section that is closed when the break child is not its first child
C19_NoEmptyParagraphBySplitAmended ==
    /\ NoEmptiedParagraph(result)
    /\ \A i \in 1..Len(original) :
          (/\ JustProcessed(i)
           /\ BreakIsLastOfLast(i)
           /\ Len(original[i].children) > 1 =>
                 original[i].children[Len(original[i].children) - 1].type # "BookmarkStart")
          => /\ \E sk \in Occurrences(result, i) :
                   /\ Occurrences(result, i) = {sk}
                   /\ result[sk[1]].elements[sk[2]] = original[i]
             /\ Len(original[i].children) > 1 =>
                   /\ Len(result) >= 2
                   /\ Closed(result).elements # <<>>
                   /\ Last(Closed(result).elements) = original[i]
                   /\ Current(result).elements = <<>>

\* a paragraph of two children or more, with its page break as the last child
\* of its last child, has been processed; and a paragraph has been split
C19_Witness ==
    \/ \E i \in 1..Len(original) :
          /\ JustProcessed(i)
          /\ BreakIsLastOfLast(i)
          /\ Len(original[i].children) > 1
          /\ original[i].children[Len(original[i].children) - 1].type # "BookmarkStart"
          /\ Last(Closed(result).elements) = original[i]

\* C20: with breakPages, when the page break is not the first child of its
\* run (and no bookmark start is directly before the run), the run is split
\* at the break: the children of the run before the break are the last run of
\* the truncated paragraph in the section before the break, and the break
\* with the children after it is the first run of the fragment that opens
\* the next section, also when the break is the last child of its run and
\* further runs follow
C20_RunSplitAtBreak ==
    \A i \in 1..Len(original) :
        (/\ JustProcessed(i)
         /\ breakPages
         /\ IsParagraph(i)
         /\ FirstBreakChild(original[i]) > 0
         /\ FirstBreakChild(original[i]) > 1 =>
               original[i].children[FirstBreakChild(original[i]) - 1].type # "BookmarkStart"
         /\ FirstBreakLeaf(original[i].children[FirstBreakChild(original[i])]) > 1)
        => LET run == original[i].children[FirstBreakChild(original[i])]
               R == FirstBreakLeaf(run) - 1
           IN  /\ Len(result) >= 2
               /\ Closed(result).elements # <<>>
               /\ Last(Closed(result).elements).pos = i
               /\ Last(Closed(result).elements).children # <<>>
               /\ Last(Last(Closed(result).elements).children).type = "Run"
               /\ Last(Last(Closed(result).elements).children).children =
                      SubSeq(run.children, 1, R)
               /\ Current(result).elements # <<>>
               /\ Current(result).elements[1].pos = i
               /\ Current(result).elements[1].children # <<>>
               /\ Current(result).elements[1].children[1].children =
                      SubSeq(run.children, R + 1, Len(run.children))

\* C21: style resolution does not depend on the order of the list: for a
\* list with unique ids and without basedOn cycle, the declarations every
\* style with an id has after the basedOn merge are the same for every
\* permutation of the list
C21_OrderIndependent ==
    (pc = "names" /\ AcyclicBasedOn(originalStyles)) =>
        \A f \in OrdersOf(Len(originalStyles)) :
            \E permuted \in {ResolvedStyles(Permuted(originalStyles, f))} :
                \A i \in 1..Len(originalStyles) :
                    originalStyles[f[i]].id # NullId =>
                        permuted[i].styles = styles[f[i]].styles

\* a style that comes before its base, which comes before its own base, has
\* taken a color only the base of its base declares
C21_Witness ==
    /\ pc = "names"
    /\ Len(styles) = 3
    /\ styles[1].basedOn = styles[2].id
    /\ styles[2].basedOn = styles[3].id
    /\ styles[3].basedOn = NoBasedOn
    /\ \E t \in Targets :
          /\ Declares(originalStyles, 3, t, "color")
          /\ ~Declares(originalStyles, 2, t, "color")
          /\ ~Declares(originalStyles, 1, t, "color")
          /\ Declares(styles, 1, t, "color")
          /\ DeclaredValue(styles, 1, t, "color") = DeclaredValue(originalStyles, 3, t, "color")

\* C22: every section of the result that holds a paragraph of the input that
\* carries section properties, or a fragment of that paragraph, has these
\* section properties, with or without breakPages and page breaks in the
\* paragraph
C22_SectionPropsGovern ==
    pc = "done" =>
        \A i \in 1..Len(original) :
            Truthy(original[i].sectionProps) =>
                \A s \in 1..Len(result) : \A k \in 1..Len(result[s].elements) :
                    result[s].elements[k].pos = i =>
                        result[s].sectProps = original[i].sectionProps

(***************************************************************************)
(* splitBySection of a paragraph with two page breaks                      *)
(***************************************************************************)
\* the children and the leaves of a paragraph with two page breaks
BreakChildCounts == 2..3
BreakLeafCounts == 4..5

\* the indices of the page breaks among the leaves l
BreakLeaves(l) == {k \in 1..Len(l) : l[k].kind = "page"}

\* TRUE when the paragraph p holds two page breaks, in two different runs,
\* and the leaf before each of them is a text
TwoBreaksAfterText(p) ==
    LET l == LeavesOfChildren(p.pos, p.children) IN
    /\ p.type = "Paragraph"
    /\ Cardinality(BreakLeaves(l)) = 2
    /\ Cardinality({j \in 1..Len(p.children) : HasPageBreak(p.children[j])}) = 2
    /\ \A k \in BreakLeaves(l) : k > 1 /\ l[k - 1].kind = "Text"

\* the lists of runs with two page breaks after a text
TwoBreakChildren ==
    {ch \in UNION {ChildSeqs(c, l) : c \in BreakChildCounts, l \in BreakLeafCounts} :
        /\ \A j \in 1..Len(ch) : ch[j].type = "Run"
        /\ TwoBreaksAfterText(Paragraph(1, ch, Undefined, FALSE))}

\* what comes before the paragraph: nothing, a table or a paragraph of text
ElementsBefore ==
    {<<>>, <<Table(1)>>, <<Paragraph(1, <<Run(<<TextLeaf>>)>>, Undefined, FALSE)>>}

\* a paragraph with two page breaks is the last element of the document; it
\* may carry section properties and its style may set pageBreakBefore
InitBreaks ==
    /\ \E before \in ElementsBefore : \E ch \in TwoBreakChildren :
       \E sp \in BOOLEAN : \E pbb \in BOOLEAN :
           LET i == Len(before) + 1
           IN  elements = Append(before, Paragraph(i, ch, IF sp THEN i ELSE Undefined, pbb))
    /\ breakPages \in BOOLEAN
    /\ cloneOfUndefined \in IF HoldsPageBreakBefore(elements) THEN {Undefined, Null}
                                                              ELSE {Undefined}
    /\ original = elements
    /\ result = <<EmptySection>>
    /\ idx = 1
    /\ sectProps = Undefined
    /\ pc = "loop"
    /\ theme = NoTheme
    /\ styles = <<>>
    /\ originalStyles = <<>>
    /\ stylesMap = EmptyMap
    /\ NoNumberingPart

SpecBreaks == InitBreaks /\ [][NextSplit]_vars

\* the number of page breaks of the input paragraph at position i that the
\* section sec holds
BreaksInSection(sec, i) ==
    Cardinality({k \in 1..Len(LeavesOf(sec.elements)) :
                    LeavesOf(sec.elements)[k] = [pos |-> i, kind |-> "page"]})

\* C23: with breakPages every manual page break is honoured: when a
\* paragraph holds two page breaks in two different runs, each preceded by
\* text, there is a section boundary at each of them, so no section of the
\* result holds both page breaks
C23_EveryBreakHonoured ==
    (pc = "done" /\ breakPages) =>
        \A i \in 1..Len(original) :
            TwoBreaksAfterText(original[i]) =>
                \A s \in 1..Len(result) : BreaksInSection(result[s], i) <= 1
====
